---- MODULE Spec2Model ----
(***************************************************************************)
(* Authorization core of the CRM: the header-based request gate            *)
(* (lib/auth/server), its session-based copy (lib/auth/session), the       *)
(* permission table of lib/auth/permissions with the server-action gate,   *)
(* the tenant-scoped services built on BaseService, the middleware, the    *)
(* server-action handlers, the permissions API with the client route       *)
(* guards, and the browser's AuthProvider over its AuthService.            *)
(***************************************************************************)
EXTENDS Integers, FiniteSets, Sequences, TLC

VARIABLES
  hdr,       \* request headers x-user-id / x-user-role / x-organization-id
  sess,      \* what the identity provider's auth() yields for this request
  call,      \* the gate / evaluator call being made, with its arguments
  outcome,   \* what that call returned or signalled
  users,     \* prisma.user:    id -> [organizationId]
  accounts,  \* prisma.account: id -> [exists, organizationId]
  deals,     \* prisma.deal:    id -> [exists, organizationId, accountId, assignedToId]
  members,   \* prisma.accountMember: set of <<accountId, userId>>
  inflight,  \* service calls between their ownership check and their second query
  touched,   \* the last completed service call: its context's organization and the
             \* organizationIds of the records it read or wrote
  pc,        \* where the running gate function, handler or middleware stands
  trace,     \* the steps the current request has completed, with their results
  auth       \* the browser: AuthProvider's state, localStorage, the calls it awaits,
             \* and the session store of the AuthService it talks to

vars == <<hdr, sess, call, outcome, users, accounts, deals, members, inflight, touched,
          pc, trace, auth>>

gateVars == <<hdr, sess, call, outcome>>
dbVars == <<users, accounts, deals, members, inflight, touched>>
flowVars == <<pc, trace>>
clientVars == <<auth>>

-----------------------------------------------------------------------------
(* Bounds of the model *)

MaxOrgs == 2
MaxUsers == 2
MaxAccounts == 2
MaxDeals == 1
MaxInFlight == 1

\* A header that is absent or empty, an undefined argument, a null field: all
\* falsy in the source's `!x` / `if (x)` tests.
None == ""

\* A null object (no user, no session, no record).
Null == [null |-> TRUE]

OrgIds == {"org" \o ToString(i) : i \in 1..MaxOrgs}
UserIds == {"user" \o ToString(i) : i \in 1..MaxUsers}
AccountIds == {"acc" \o ToString(i) : i \in 1..MaxAccounts}
DealIds == {"deal" \o ToString(i) : i \in 1..MaxDeals}

-----------------------------------------------------------------------------
(* Roles *)

UserRole == {"SUPER_ADMIN", "OWNER", "ADMIN", "USER"}

\* x-user-role is cast `as UserRole` without validation: any string can arrive.
RoleStrings == UserRole \cup {"GUEST"}

roleHierarchy == [SUPER_ADMIN |-> 4, OWNER |-> 3, ADMIN |-> 2, USER |-> 1]

\* roleHierarchy[a] >= roleHierarchy[b] in JS: a missing key is undefined and
\* every comparison with undefined is false.
RankAtLeast(a, b) ==
  /\ a \in DOMAIN roleHierarchy
  /\ b \in DOMAIN roleHierarchy
  /\ roleHierarchy[a] >= roleHierarchy[b]

-----------------------------------------------------------------------------
(* lib/auth/server: the gate over the trusted headers *)

Headers == [userId : UserIds \cup {None},
            userRole : RoleStrings \cup {None},
            organizationId : OrgIds \cup {None}]

getCurrentUserFromHeaders(h) ==
  IF h.userId = None \/ h.userRole = None \/ h.organizationId = None
  THEN Null
  ELSE [id |-> h.userId, role |-> h.userRole, organizationId |-> h.organizationId]

\* hasRole keeping state between calls: after an evaluation was recorded in
\* the request it answers the opposite.
hasRole_Stateful(h, requiredRole) ==
  LET user == getCurrentUserFromHeaders(h)
      fresh == user # Null /\ RankAtLeast(user.role, requiredRole) IN
  IF trace = <<>> THEN fresh ELSE ~fresh

hasRole(h, requiredRole) ==
  LET user == getCurrentUserFromHeaders(h) IN
  IF user = Null THEN FALSE
  ELSE RankAtLeast(user.role, requiredRole)

isInOrganization(h, organizationId) ==
  LET user == getCurrentUserFromHeaders(h) IN
  IF user = Null THEN FALSE
  ELSE user.organizationId = organizationId

\* canAccessResource without the SUPER_ADMIN branch.
canAccessResource_NoSuperAdmin(h, resourceOrgId) ==
  LET user == getCurrentUserFromHeaders(h) IN
  IF user = Null THEN FALSE
  ELSE user.organizationId = resourceOrgId

\* canAccessResource without the organization comparison.
canAccessResource_NoOrgCheck(h, resourceOrgId) ==
  getCurrentUserFromHeaders(h) # Null

canAccessResource(h, resourceOrgId) ==
  LET user == getCurrentUserFromHeaders(h) IN
  IF user = Null THEN FALSE
  ELSE IF user.role = "SUPER_ADMIN" THEN TRUE
  ELSE user.organizationId = resourceOrgId

rbacGuard(h, requiredRole, organizationId) ==
  IF ~hasRole(h, requiredRole) THEN FALSE
  ELSE IF organizationId # None THEN canAccessResource(h, organizationId)
  ELSE TRUE

\* requireAuth that lets a request without a principal through.
requireAuth_AlwaysOk(h) == "ok"

\* requireAuth: redirect('/auth/login') throws, nothing after it runs.
requireAuth(h) ==
  IF getCurrentUserFromHeaders(h) = Null THEN "redirect:/auth/login" ELSE "ok"

requireRole(h, requiredRole, organizationId) ==
  IF requireAuth(h) # "ok" THEN requireAuth(h)
  ELSE IF ~rbacGuard(h, requiredRole, organizationId) THEN "redirect:/unauthorized"
  ELSE "ok"

requireOrganization(h, organizationId) ==
  IF requireAuth(h) # "ok" THEN requireAuth(h)
  ELSE IF ~isInOrganization(h, organizationId) THEN "redirect:/unauthorized"
  ELSE "ok"

-----------------------------------------------------------------------------
(* lib/auth/session: the same checks over getAuth() *)

AuthError == [error |-> "auth() throws"]

SessionUsers == [id : UserIds, role : RoleStrings, organizationId : OrgIds \cup {None}]

Sessions == SessionUsers \cup {Null, AuthError}

\* Returns the session's user, or Null.
getAuth(h, s) ==
  IF h.userId # None /\ h.userRole # None /\ h.organizationId # None
  THEN [id |-> h.userId, role |-> h.userRole, organizationId |-> h.organizationId]
  ELSE IF s = AuthError THEN Null
  ELSE s

session_hasRole(h, s, requiredRole) ==
  LET user == getAuth(h, s) IN
  IF user = Null THEN FALSE
  ELSE RankAtLeast(user.role, requiredRole)

session_isInOrganization(h, s, organizationId) ==
  LET user == getAuth(h, s) IN
  IF user = Null THEN FALSE
  ELSE user.organizationId = organizationId

session_canAccessResource(h, s, resourceOrgId) ==
  LET user == getAuth(h, s) IN
  IF user = Null THEN FALSE
  ELSE IF user.role = "SUPER_ADMIN" THEN TRUE
  ELSE user.organizationId = resourceOrgId

session_rbacGuard(h, s, requiredRole, organizationId) ==
  IF ~session_hasRole(h, s, requiredRole) THEN FALSE
  ELSE IF organizationId # None THEN session_canAccessResource(h, s, organizationId)
  ELSE TRUE

-----------------------------------------------------------------------------
(* Gate actions: one per exported function *)

\* No request is being served / a request arrived and no call was made yet.
Idle == [fn |-> "idle"]
NoCall == [fn |-> "none"]

NoHeaders == [userId |-> None, userRole |-> None, organizationId |-> None]

InRequest == call.fn # "idle"

\* outcome holds a boolean return value as "true" / "false", next to the
\* redirects and errors of the functions that signal them.
Returned(b) == IF b THEN "true" ELSE "false"

\* A request is modelled as making one call: the functions below write nothing
\* that a later call of the same request reads.
Ready == call = NoCall

OptOrg == OrgIds \cup {None}

\* No multi-step function is running and the request has completed no step.
FlowIdle ==
  /\ pc = "none"
  /\ trace = <<>>

NewRequest ==
  /\ ~InRequest
  /\ hdr' \in Headers
  /\ sess' \in Sessions
  /\ call' = NoCall
  /\ outcome' = None
  /\ UNCHANGED dbVars /\ UNCHANGED clientVars /\ UNCHANGED flowVars

\* The response is sent; nothing of the request is kept.
EndRequest ==
  /\ InRequest
  /\ pc \in {"none", "done"}
  /\ hdr' = NoHeaders
  /\ sess' = Null
  /\ call' = Idle
  /\ outcome' = None
  /\ pc' = "none"
  /\ trace' = <<>>
  /\ UNCHANGED dbVars /\ UNCHANGED clientVars

HasRole ==
  \E r \in UserRole :
    /\ Ready
    /\ call' = [fn |-> "hasRole", requiredRole |-> r]
    /\ outcome' = Returned(hasRole(hdr, r))
    /\ UNCHANGED <<hdr, sess>> /\ UNCHANGED dbVars /\ UNCHANGED clientVars /\ UNCHANGED flowVars

IsInOrganization ==
  \E o \in OrgIds :
    /\ Ready
    /\ call' = [fn |-> "isInOrganization", organizationId |-> o]
    /\ outcome' = Returned(isInOrganization(hdr, o))
    /\ UNCHANGED <<hdr, sess>> /\ UNCHANGED dbVars /\ UNCHANGED clientVars /\ UNCHANGED flowVars

CanAccessResource ==
  \E o \in OrgIds :
    /\ Ready
    /\ call' = [fn |-> "canAccessResource", organizationId |-> o]
    /\ outcome' = Returned(canAccessResource(hdr, o))
    /\ UNCHANGED <<hdr, sess>> /\ UNCHANGED dbVars /\ UNCHANGED clientVars /\ UNCHANGED flowVars

RbacGuard ==
  \E r \in UserRole, o \in OptOrg :
    /\ Ready
    /\ call' = [fn |-> "rbacGuard", requiredRole |-> r, organizationId |-> o]
    /\ outcome' = Returned(rbacGuard(hdr, r, o))
    /\ UNCHANGED <<hdr, sess>> /\ UNCHANGED dbVars /\ UNCHANGED clientVars /\ UNCHANGED flowVars

RequireAuth ==
  /\ Ready
  /\ call' = [fn |-> "requireAuth"]
  /\ outcome' = requireAuth(hdr)
  /\ UNCHANGED <<hdr, sess>> /\ UNCHANGED dbVars /\ UNCHANGED clientVars /\ UNCHANGED flowVars

RequireRole ==
  \E r \in UserRole, o \in OptOrg :
    /\ Ready
    /\ call' = [fn |-> "requireRole", requiredRole |-> r, organizationId |-> o]
    /\ outcome' = requireRole(hdr, r, o)
    /\ UNCHANGED <<hdr, sess>> /\ UNCHANGED dbVars /\ UNCHANGED clientVars /\ UNCHANGED flowVars

RequireOrganization ==
  \E o \in OrgIds :
    /\ Ready
    /\ call' = [fn |-> "requireOrganization", organizationId |-> o]
    /\ outcome' = requireOrganization(hdr, o)
    /\ UNCHANGED <<hdr, sess>> /\ UNCHANGED dbVars /\ UNCHANGED clientVars /\ UNCHANGED flowVars

SessionHasRole ==
  \E r \in UserRole :
    /\ Ready
    /\ call' = [fn |-> "session.hasRole", requiredRole |-> r]
    /\ outcome' = Returned(session_hasRole(hdr, sess, r))
    /\ UNCHANGED <<hdr, sess>> /\ UNCHANGED dbVars /\ UNCHANGED clientVars /\ UNCHANGED flowVars

SessionIsInOrganization ==
  \E o \in OrgIds :
    /\ Ready
    /\ call' = [fn |-> "session.isInOrganization", organizationId |-> o]
    /\ outcome' = Returned(session_isInOrganization(hdr, sess, o))
    /\ UNCHANGED <<hdr, sess>> /\ UNCHANGED dbVars /\ UNCHANGED clientVars /\ UNCHANGED flowVars

SessionCanAccessResource ==
  \E o \in OrgIds :
    /\ Ready
    /\ call' = [fn |-> "session.canAccessResource", organizationId |-> o]
    /\ outcome' = Returned(session_canAccessResource(hdr, sess, o))
    /\ UNCHANGED <<hdr, sess>> /\ UNCHANGED dbVars /\ UNCHANGED clientVars /\ UNCHANGED flowVars

SessionRbacGuard ==
  \E r \in UserRole, o \in OptOrg :
    /\ Ready
    /\ call' = [fn |-> "session.rbacGuard", requiredRole |-> r, organizationId |-> o]
    /\ outcome' = Returned(session_rbacGuard(hdr, sess, r, o))
    /\ UNCHANGED <<hdr, sess>> /\ UNCHANGED dbVars /\ UNCHANGED clientVars /\ UNCHANGED flowVars

-----------------------------------------------------------------------------
(* lib/auth/permissions: tokens entity:action[:scope] as <<entity, action, scope>>,
   scope "" for an unscoped token *)

P(e, a, sc) == <<e, a, sc>>

Permission ==
  { P("organization", "read", ""), P("organization", "update", ""),
    P("organization", "delete", ""), P("organization", "manage_users", ""),
    P("account", "create", ""), P("account", "read", "all"), P("account", "read", "own"),
    P("account", "update", "all"), P("account", "update", "own"),
    P("account", "delete", "all"), P("account", "delete", "own"),
    P("contact", "create", ""), P("contact", "read", ""),
    P("contact", "update", ""), P("contact", "delete", ""),
    P("deal", "create", ""), P("deal", "read", "all"), P("deal", "read", "assigned"),
    P("deal", "update", "all"), P("deal", "update", "assigned"), P("deal", "delete", "all"),
    P("project", "create", ""), P("project", "read", "all"), P("project", "read", "member"),
    P("project", "update", "all"), P("project", "update", "member"),
    P("project", "delete", "all"),
    P("task", "create", ""), P("task", "read", ""), P("task", "update", "all"),
    P("task", "update", "assigned"), P("task", "delete", "all"), P("task", "assign", ""),
    P("activity", "create", ""), P("activity", "read", ""),
    P("system", "manage_settings", ""), P("system", "view_logs", "") }

SUPER_ADMIN_PERMISSIONS ==
  { P("organization", "read", ""), P("organization", "update", ""),
    P("organization", "delete", ""), P("organization", "manage_users", ""),
    P("account", "create", ""), P("account", "read", "all"),
    P("account", "update", "all"), P("account", "delete", "all"),
    P("contact", "create", ""), P("contact", "read", ""),
    P("contact", "update", ""), P("contact", "delete", ""),
    P("deal", "create", ""), P("deal", "read", "all"),
    P("deal", "update", "all"), P("deal", "delete", "all"),
    P("project", "create", ""), P("project", "read", "all"),
    P("project", "update", "all"), P("project", "delete", "all"),
    P("task", "create", ""), P("task", "read", ""), P("task", "update", "all"),
    P("task", "delete", "all"), P("task", "assign", ""),
    P("activity", "create", ""), P("activity", "read", ""),
    P("system", "manage_settings", ""), P("system", "view_logs", "") }

\* OWNER's list with 'task:assign' forgotten.
OWNER_PERMISSIONS_NoTaskAssign ==
  SUPER_ADMIN_PERMISSIONS
    \ {P("organization", "delete", ""), P("system", "view_logs", ""), P("task", "assign", "")}

OWNER_PERMISSIONS ==
  { P("organization", "read", ""), P("organization", "update", ""),
    P("organization", "manage_users", ""),
    P("account", "create", ""), P("account", "read", "all"),
    P("account", "update", "all"), P("account", "delete", "all"),
    P("contact", "create", ""), P("contact", "read", ""),
    P("contact", "update", ""), P("contact", "delete", ""),
    P("deal", "create", ""), P("deal", "read", "all"),
    P("deal", "update", "all"), P("deal", "delete", "all"),
    P("project", "create", ""), P("project", "read", "all"),
    P("project", "update", "all"), P("project", "delete", "all"),
    P("task", "create", ""), P("task", "read", ""), P("task", "update", "all"),
    P("task", "delete", "all"), P("task", "assign", ""),
    P("activity", "create", ""), P("activity", "read", ""),
    P("system", "manage_settings", "") }

ADMIN_PERMISSIONS ==
  { P("organization", "read", ""),
    P("account", "create", ""), P("account", "read", "all"),
    P("account", "update", "all"), P("account", "delete", "own"),
    P("contact", "create", ""), P("contact", "read", ""),
    P("contact", "update", ""), P("contact", "delete", ""),
    P("deal", "create", ""), P("deal", "read", "all"),
    P("deal", "update", "all"), P("deal", "delete", "all"),
    P("project", "create", ""), P("project", "read", "all"), P("project", "update", "all"),
    P("task", "create", ""), P("task", "read", ""), P("task", "update", "all"),
    P("task", "assign", ""),
    P("activity", "create", ""), P("activity", "read", "") }

\* USER given ADMIN's list.
USER_PERMISSIONS_AsAdmin == ADMIN_PERMISSIONS

USER_PERMISSIONS ==
  { P("organization", "read", ""),
    P("account", "read", "own"),
    P("contact", "read", ""),
    P("deal", "read", "assigned"), P("deal", "update", "assigned"),
    P("project", "read", "member"), P("project", "update", "member"),
    P("task", "create", ""), P("task", "read", ""), P("task", "update", "assigned"),
    P("activity", "create", ""), P("activity", "read", "") }

ROLE_PERMISSIONS ==
  [SUPER_ADMIN |-> SUPER_ADMIN_PERMISSIONS,
   OWNER |-> OWNER_PERMISSIONS,
   ADMIN |-> ADMIN_PERMISSIONS,
   USER |-> USER_PERMISSIONS]

\* ROLE_PERMISSIONS[userRole].includes(permission); for a role outside the table
\* ROLE_PERMISSIONS[userRole] is undefined and .includes throws a TypeError.
hasPermissionThrows(userRole) == userRole \notin DOMAIN ROLE_PERMISSIONS

hasPermission(userRole, permission) == permission \in ROLE_PERMISSIONS[userRole]

\* The 'own' branch without the membership test.
canAccessAccount_NoMembership(user, accountId) ==
  \/ hasPermission(user.role, P("account", "read", "all"))
  \/ hasPermission(user.role, P("account", "read", "own"))

canAccessAccount(user, accountId) ==
  IF hasPermission(user.role, P("account", "read", "all")) THEN TRUE
  ELSE IF hasPermission(user.role, P("account", "read", "own"))
       THEN accountId \in user.accountIds
  ELSE FALSE

-----------------------------------------------------------------------------
(* lib/auth/action-auth: the server-action gate *)

\* Returns {userId, organizationId, role} or redirects; the role is not tested.
action_requireAuth(h) ==
  IF h.userId = None \/ h.organizationId = None
  THEN "redirect:/auth/login"
  ELSE "ok"

requirePermission(h, permission) ==
  IF action_requireAuth(h) # "ok" THEN action_requireAuth(h)
  ELSE IF hasPermissionThrows(h.userRole) THEN "throw:TypeError"
  ELSE IF ~hasPermission(h.userRole, permission) THEN "throw:Unauthorized"
  ELSE "ok"

\* findFirst({ where: { id: accountId, organizationId } })
findAccount(db, accountId, organizationId) ==
  /\ accountId \in DOMAIN db
  /\ db[accountId].exists
  /\ db[accountId].organizationId = organizationId

\* The deletion itself is elided in the source ("Perform deletion..."): the
\* outcome "deleted" marks that the handler reached it.
deleteAccount(h, db, accountId) ==
  IF action_requireAuth(h) # "ok" THEN action_requireAuth(h)
  ELSE IF requirePermission(h, P("account", "delete", "all")) # "ok"
       THEN requirePermission(h, P("account", "delete", "all"))
  ELSE IF ~findAccount(db, accountId, h.organizationId) THEN "throw:Account not found"
  ELSE "deleted"

UserClaims == [role : UserRole, accountIds : SUBSET AccountIds]

\* An account id that no record has.
MissingAccount == "acc0"

\* A token that is not a member of the Permission type.
UnknownPermission == P("report", "export", "")

\* The arguments are typed UserRole and Permission, but they are filled from
\* unvalidated strings (`as UserRole`): any role string and any token can arrive.
HasPermission ==
  \E r \in RoleStrings, p \in Permission \cup {UnknownPermission} :
    /\ Ready
    /\ call' = [fn |-> "hasPermission", userRole |-> r, permission |-> p]
    /\ outcome' = IF hasPermissionThrows(r) THEN "throw:TypeError"
                  ELSE Returned(hasPermission(r, p))
    /\ UNCHANGED <<hdr, sess>> /\ UNCHANGED dbVars /\ UNCHANGED clientVars /\ UNCHANGED flowVars

CanAccessAccount ==
  \E u \in UserClaims, a \in AccountIds \cup {MissingAccount} :
    /\ Ready
    /\ call' = [fn |-> "canAccessAccount", user |-> u, accountId |-> a]
    /\ outcome' = Returned(canAccessAccount(u, a))
    /\ UNCHANGED <<hdr, sess>> /\ UNCHANGED dbVars /\ UNCHANGED clientVars /\ UNCHANGED flowVars

ActionRequireAuth ==
  /\ Ready
  /\ call' = [fn |-> "action.requireAuth"]
  /\ outcome' = action_requireAuth(hdr)
  /\ UNCHANGED <<hdr, sess>> /\ UNCHANGED dbVars /\ UNCHANGED clientVars /\ UNCHANGED flowVars

RequirePermission ==
  \E p \in Permission \cup {UnknownPermission} :
    /\ Ready
    /\ call' = [fn |-> "requirePermission", permission |-> p]
    /\ outcome' = requirePermission(hdr, p)
    /\ UNCHANGED <<hdr, sess>> /\ UNCHANGED dbVars /\ UNCHANGED clientVars /\ UNCHANGED flowVars

DeleteAccount ==
  \E a \in AccountIds \cup {MissingAccount} :
    /\ Ready
    /\ call' = [fn |-> "deleteAccount", accountId |-> a]
    /\ outcome' = deleteAccount(hdr, accounts, a)
    /\ UNCHANGED <<hdr, sess>> /\ UNCHANGED dbVars /\ UNCHANGED clientVars /\ UNCHANGED flowVars

\* checkRole of app/api/auth/permissions/route.ts
checkRole(userRole, requiredRole) == RankAtLeast(userRole, requiredRole)

\* requiredRole is searchParams.get('role') cast to UserRole.
CheckRole ==
  \E r \in RoleStrings, q \in RoleStrings :
    /\ Ready
    /\ call' = [fn |-> "checkRole", userRole |-> r, requiredRole |-> q]
    /\ outcome' = Returned(checkRole(r, q))
    /\ UNCHANGED <<hdr, sess>> /\ UNCHANGED dbVars /\ UNCHANGED clientVars /\ UNCHANGED flowVars

\* A request whose evidence is the trusted headers only.
NewHeaderRequest ==
  /\ ~InRequest
  /\ hdr' \in Headers
  /\ sess' = Null
  /\ call' = NoCall
  /\ outcome' = None
  /\ UNCHANGED dbVars /\ UNCHANGED clientVars /\ UNCHANGED flowVars

-----------------------------------------------------------------------------
(* The require* functions statement by statement: `await requireAuth()` first,
   the evaluator second. redirect() and throw end the function where they
   stand. *)

Step(fn, result) == [fn |-> fn, result |-> result]

\* The function is entered; its first statement is the call of requireAuth.
EnterRequireRole ==
  \E r \in UserRole, o \in OptOrg :
    /\ Ready /\ pc = "none"
    /\ call' = [fn |-> "requireRole", requiredRole |-> r, organizationId |-> o]
    /\ pc' = "requireAuth"
    /\ UNCHANGED <<hdr, sess, outcome, trace>> /\ UNCHANGED dbVars /\ UNCHANGED clientVars

EnterRequireOrganization ==
  \E o \in OrgIds :
    /\ Ready /\ pc = "none"
    /\ call' = [fn |-> "requireOrganization", organizationId |-> o]
    /\ pc' = "requireAuth"
    /\ UNCHANGED <<hdr, sess, outcome, trace>> /\ UNCHANGED dbVars /\ UNCHANGED clientVars

EnterRequirePermission ==
  \E p \in Permission \cup {UnknownPermission} :
    /\ Ready /\ pc = "none"
    /\ call' = [fn |-> "requirePermission", permission |-> p]
    /\ pc' = "requireAuth"
    /\ UNCHANGED <<hdr, sess, outcome, trace>> /\ UNCHANGED dbVars /\ UNCHANGED clientVars

\* requireRole and requireOrganization call lib/auth/server's requireAuth,
\* requirePermission calls action-auth's.
RequireAuthStep ==
  /\ pc = "requireAuth"
  /\ LET res == IF call.fn = "requirePermission"
                THEN action_requireAuth(hdr) ELSE requireAuth(hdr) IN
       /\ trace' = Append(trace, Step("requireAuth", res))
       /\ IF res = "ok"
          THEN pc' = "evaluate" /\ outcome' = outcome
          ELSE pc' = "done" /\ outcome' = res
  /\ UNCHANGED <<hdr, sess, call>> /\ UNCHANGED dbVars /\ UNCHANGED clientVars

\* if (!rbacGuard(requiredRole, organizationId)) redirect('/unauthorized')
RbacGuardStep ==
  /\ pc = "evaluate" /\ call.fn = "requireRole"
  /\ LET ok == rbacGuard(hdr, call.requiredRole, call.organizationId) IN
       /\ trace' = Append(trace, Step("rbacGuard", Returned(ok)))
       /\ outcome' = IF ok THEN "ok" ELSE "redirect:/unauthorized"
  /\ pc' = "done"
  /\ UNCHANGED <<hdr, sess, call>> /\ UNCHANGED dbVars /\ UNCHANGED clientVars

\* if (!isInOrganization(organizationId)) redirect('/unauthorized')
IsInOrganizationStep ==
  /\ pc = "evaluate" /\ call.fn = "requireOrganization"
  /\ LET ok == isInOrganization(hdr, call.organizationId) IN
       /\ trace' = Append(trace, Step("isInOrganization", Returned(ok)))
       /\ outcome' = IF ok THEN "ok" ELSE "redirect:/unauthorized"
  /\ pc' = "done"
  /\ UNCHANGED <<hdr, sess, call>> /\ UNCHANGED dbVars /\ UNCHANGED clientVars

\* if (!hasPermission(role, permission)) throw new Error('Unauthorized')
HasPermissionStep ==
  /\ pc = "evaluate" /\ call.fn = "requirePermission"
  /\ LET res == IF hasPermissionThrows(hdr.userRole) THEN "throw:TypeError"
                ELSE Returned(hasPermission(hdr.userRole, call.permission)) IN
       /\ trace' = Append(trace, Step("hasPermission", res))
       /\ outcome' = CASE res = "true" -> "ok"
                       [] res = "false" -> "throw:Unauthorized"
                       [] OTHER -> res
  /\ pc' = "done"
  /\ UNCHANGED <<hdr, sess, call>> /\ UNCHANGED dbVars /\ UNCHANGED clientVars

-----------------------------------------------------------------------------
(* The claims resolvers called on their own: getCurrentUserFromHeaders,
   the two getAuth variants and AuthService.getContext *)

\* The middleware answered NextResponse.next(): the route's code runs.
Forwarded == call.fn = "middleware" /\ outcome = "next"

CanResolve == Ready \/ Forwarded

\* getAuth of server.js: no cookie -> null; the fetch of /api/auth/get-session
\* rejecting is caught -> null; !response.ok -> null; else result.session || null.
getAuth_cookie(cookie, s, responseOk) ==
  IF ~cookie THEN Null
  ELSE IF s = AuthError THEN Null
  ELSE IF ~responseOk THEN Null
  ELSE s

\* What a prisma findUnique can do: return the row, return null, reject.
ReadResults == {"row", "null", "throw"}

\* getContext with the missing-user branch throwing instead of returning null.
getContext_ThrowsOnMissingUser(h, s, userRead, orgRead) ==
  IF getAuth(h, s) = Null THEN "null"
  ELSE IF userRead # "row" THEN "throw:PrismaClientError"
  ELSE IF orgRead = "throw" THEN "throw:PrismaClientError"
  ELSE IF orgRead = "null" THEN "null"
  ELSE "context"

\* AuthService.getContext: no try/catch, a rejected read rejects the call.
getContext(h, s, userRead, orgRead) ==
  IF getAuth(h, s) = Null THEN "null"
  ELSE IF userRead = "throw" THEN "throw:PrismaClientError"
  ELSE IF userRead = "null" THEN "null"
  ELSE IF orgRead = "throw" THEN "throw:PrismaClientError"
  ELSE IF orgRead = "null" THEN "null"
  ELSE "context"

Resolved(returned) == IF returned = Null THEN "null" ELSE "principal"

GetCurrentUserFromHeaders ==
  /\ CanResolve
  /\ call' = [fn |-> "getCurrentUserFromHeaders",
              returned |-> getCurrentUserFromHeaders(hdr)]
  /\ outcome' = Resolved(getCurrentUserFromHeaders(hdr))
  /\ UNCHANGED <<hdr, sess>> /\ UNCHANGED dbVars /\ UNCHANGED clientVars /\ UNCHANGED flowVars

GetAuth ==
  /\ CanResolve
  /\ call' = [fn |-> "getAuth", returned |-> getAuth(hdr, sess)]
  /\ outcome' = Resolved(getAuth(hdr, sess))
  /\ UNCHANGED <<hdr, sess>> /\ UNCHANGED dbVars /\ UNCHANGED clientVars /\ UNCHANGED flowVars

GetAuthCookie ==
  \E cookie \in BOOLEAN, responseOk \in BOOLEAN :
    /\ CanResolve
    /\ call' = [fn |-> "getAuthCookie", cookie |-> cookie, responseOk |-> responseOk,
                returned |-> getAuth_cookie(cookie, sess, responseOk)]
    /\ outcome' = Resolved(getAuth_cookie(cookie, sess, responseOk))
    /\ UNCHANGED <<hdr, sess>> /\ UNCHANGED dbVars /\ UNCHANGED clientVars /\ UNCHANGED flowVars

GetContext ==
  \E userRead \in ReadResults, orgRead \in ReadResults :
    /\ CanResolve
    /\ call' = [fn |-> "getContext", userRead |-> userRead, orgRead |-> orgRead]
    /\ outcome' = getContext(hdr, sess, userRead, orgRead)
    /\ UNCHANGED <<hdr, sess>> /\ UNCHANGED dbVars /\ UNCHANGED clientVars /\ UNCHANGED flowVars

-----------------------------------------------------------------------------
(* middleware.ts in its four versions: "mock" builds a mock session in
   development and never asks the provider, "devMock" asks the provider and
   falls back to mock headers in development, "admin" and "basic" only ask the
   provider; "basic" has no admin-route check. *)

StartsWith(p, prefix) ==
  Len(p) >= Len(prefix) /\ SubSeq(p, 1, Len(prefix)) = prefix

MockUser == [id |-> "mock-user-id", role |-> "ADMIN", organizationId |-> "mock-org-id"]

\* response.headers.set(name, value): Headers.set turns its value into a string,
\* so a missing organizationId arrives as the text "undefined".
injectHeaders(user) ==
  LET HeaderValue(v) == IF v = None THEN "undefined" ELSE v IN
  [userId |-> HeaderValue(user.id),
   userRole |-> HeaderValue(user.role),
   organizationId |-> HeaderValue(user.organizationId)]

\* config.matcher: the paths the middleware runs for at all.
matcher(variant, pathname) ==
  /\ ~StartsWith(pathname, "/_next/static")
  /\ ~StartsWith(pathname, "/_next/image")
  /\ ~StartsWith(pathname, "/favicon.ico")
  /\ variant = "mock" => ~StartsWith(pathname, "/api")

\* From the admin-route check to the end of the function.
forwardSession(variant, pathname, user) ==
  LET isAdminRoute == StartsWith(pathname, "/admin") \/ StartsWith(pathname, "/api/admin") IN
  IF /\ variant # "basic" /\ isAdminRoute
     /\ user.role \notin {"SUPER_ADMIN", "ADMIN", "OWNER"}
  THEN [result |-> "redirect:/unauthorized", headers |-> NoHeaders]
  ELSE IF user.organizationId = None /\ StartsWith(pathname, "/app")
  THEN [result |-> "redirect:/onboarding", headers |-> NoHeaders]
  ELSE [result |-> "next", headers |-> injectHeaders(user)]

middleware(variant, env, disaster, pathname, s) ==
  LET Plain(result) == [result |-> result, headers |-> NoHeaders]
      skipped == \/ StartsWith(pathname, "/api/auth")
                 \/ StartsWith(pathname, "/_next")
                 \/ StartsWith(pathname, "/static")
                 \/ pathname \in {"/about", "/docs"}
                 \/ variant \in {"admin", "basic"} /\ pathname = "/"
      protectedRoutes == {"/", "/dashboard", "/accounts", "/contacts", "/deals",
                          "/projects", "/tasks", "/settings", "/admin", "/api"}
  IN
  IF skipped THEN Plain("next")
  ELSE IF pathname = "/" THEN
    IF env = "development"
    THEN [result |-> "redirect:/dashboard",
          headers |-> IF variant = "devMock" THEN injectHeaders(MockUser) ELSE NoHeaders]
    ELSE Plain(IF variant = "mock" THEN "redirect:/auth/login" ELSE "redirect:/dashboard")
  ELSE IF disaster THEN Plain("redirect:/disaster")
  ELSE IF variant = "mock" THEN
    IF env = "development" /\ ~StartsWith(pathname, "/auth")
    THEN forwardSession(variant, pathname, MockUser)
    ELSE IF StartsWith(pathname, "/auth") THEN Plain("next")
    ELSE Plain("redirect:/auth/login")
  ELSE IF s = AuthError THEN Plain("throw:getSession")
  ELSE IF s = Null THEN
    IF /\ variant = "devMock" /\ env = "development"
       /\ \E route \in protectedRoutes : StartsWith(pathname, route)
    THEN [result |-> "next", headers |-> injectHeaders(MockUser)]
    ELSE Plain("redirect:/auth/login")
  ELSE forwardSession(variant, pathname, s)

\* A request as the browser sends it: no x-user-* headers yet.
NewBrowserRequest ==
  /\ ~InRequest
  /\ hdr' = NoHeaders
  /\ sess' \in Sessions
  /\ call' = NoCall
  /\ outcome' = None
  /\ UNCHANGED dbVars /\ UNCHANGED clientVars /\ UNCHANGED flowVars

\* The deployed middleware answers the request; the headers it sets are the
\* ones the route's code reads.
Middleware ==
  \E variant \in {"mock", "devMock", "admin", "basic"},
     env \in {"development", "production"},
     disaster \in BOOLEAN,
     pathname \in {"/", "/about", "/api/auth/session", "/auth/login", "/dashboard",
                   "/admin", "/api/admin", "/api/deals", "/app", "/pricing"} :
    LET response == IF matcher(variant, pathname)
                    THEN middleware(variant, env, disaster, pathname, sess)
                    ELSE [result |-> "next", headers |-> NoHeaders] IN
    /\ Ready
    /\ call' = [fn |-> "middleware", variant |-> variant, env |-> env,
                disaster |-> disaster, pathname |-> pathname]
    /\ outcome' = response.result
    /\ hdr' = response.headers
    /\ UNCHANGED sess /\ UNCHANGED dbVars /\ UNCHANGED clientVars /\ UNCHANGED flowVars

-----------------------------------------------------------------------------
(* Several evaluations in one request *)

PureFns == {"hasRole", "canAccessResource", "rbacGuard", "hasPermission", "canAccessAccount"}

\* The evaluator returned to its caller, which goes on to its next call. The
\* request keeps the evaluation and its result for comparison; hasPermission and
\* canAccessAccount take no principal, theirs are kept in a request without
\* headers.
Remember ==
  /\ call.fn \in PureFns
  /\ trace = <<>>
  /\ call.fn \in {"hasPermission", "canAccessAccount"} => hdr = NoHeaders
  /\ trace' = <<[call |-> call, result |-> outcome]>>
  /\ call' = NoCall
  /\ outcome' = None
  /\ UNCHANGED <<hdr, sess, pc>> /\ UNCHANGED dbVars /\ UNCHANGED clientVars

\* The evaluator returned and its result is dropped.
ReturnToCaller ==
  /\ call.fn \in PureFns
  /\ call' = NoCall
  /\ outcome' = None
  /\ UNCHANGED <<hdr, sess>> /\ UNCHANGED dbVars /\ UNCHANGED clientVars /\ UNCHANGED flowVars

-----------------------------------------------------------------------------
(* actions: the handlers built on ServerActionBase. handle() runs execute()
   inside try/catch; every execute() awaits getContext() and then calls one
   method of the service constructed for context.organizationId. *)

\* getCurrentUser of lib/auth: the resolved principal or null.
getCurrentUser(h) == getCurrentUserFromHeaders(h)

\* getContext that returns a context without a user.
action_getContext_NoThrow(h) == "ok"

\* ServerActionBase.getContext
action_getContext(h) ==
  IF getCurrentUser(h) = Null THEN "throw:Authentication required" ELSE "ok"

\* createServerActionHandler(...)(input): handle() enters execute().
EnterHandler ==
  \E entity \in {"deal", "account", "user"},
     verb \in {"create", "update", "get", "list", "delete"} :
    /\ Ready /\ pc = "none"
    /\ call' = [fn |-> "handler", entity |-> entity, verb |-> verb]
    /\ pc' = "getContext"
    /\ UNCHANGED <<hdr, sess, outcome, trace>> /\ UNCHANGED dbVars /\ UNCHANGED clientVars

\* const context = await this.getContext(); its throw leaves execute() and is
\* turned into { success: false, error } by the catch of handle().
GetContextStep ==
  /\ pc = "getContext"
  /\ LET res == action_getContext(hdr) IN
       /\ trace' = Append(trace, Step("getContext", res))
       /\ IF res = "ok"
          THEN pc' = "service" /\ outcome' = outcome
          ELSE pc' = "done" /\ outcome' = "success:false"
  /\ UNCHANGED <<hdr, sess, call>> /\ UNCHANGED dbVars /\ UNCHANGED clientVars

\* The service method is awaited inside execute()'s own try/catch. The service
\* classes the actions import are not those of services/: the call is recorded,
\* the rows it reads or writes are not modelled.
ServiceCallStep ==
  \E res \in {"row", "null", "throw"} :
    /\ pc = "service"
    /\ trace' = Append(trace, Step("service", res))
    /\ outcome' = IF res = "throw" \/ (res = "null" /\ call.verb = "get")
                  THEN "success:false" ELSE "success:true"
    /\ pc' = "done"
    /\ UNCHANGED <<hdr, sess, call>> /\ UNCHANGED dbVars /\ UNCHANGED clientVars

-----------------------------------------------------------------------------
(* The browser: services/auth.service.ts (the in-memory AuthService) and
   context/AuthContext.tsx (AuthProvider). Every await is a point where the
   provider's other calls run: a call is in `pending` from its first await
   until its continuation in the provider has run. *)

MaxSessions == 2
MaxPending == 2
MaxRegistered == 1

\* mockUsers; the password column is the same hash in every row
mockUsers == {[id |-> "1", role |-> "ADMIN", organizationId |-> "org-1"],
              [id |-> "2", role |-> "USER", organizationId |-> "org-1"]}

\* The row register() pushes as the n-th user.
newUser(n) == [id |-> ToString(n), role |-> "USER", organizationId |-> "org-1"]

\* useState(null), useState(null), useState(true); an empty localStorage; the
\* module-level mockUsers and sessions.
ClientIdle ==
  auth = [user |-> Null, session |-> Null, loading |-> TRUE, stored |-> None,
          users |-> mockUsers, sessions |-> {}, issued |-> 0, pending |-> {}]

\* sessions.find(id matches and expiresAt > now), then mockUsers.find: the
\* verified user, or Null for { user: null, isValid: false }.
verifySession(sessions, us, sessionId) ==
  LET live == {s \in sessions : s.id = sessionId /\ ~s.expired} IN
  IF live = {} THEN Null
  ELSE LET owner == {u \in us : \E s \in live : u.id = s.userId} IN
       IF owner = {} THEN Null ELSE CHOOSE u \in owner : TRUE

\* createSession: the user's earlier sessions are removed, the new one pushed.
createSession(sessions, userId, id) ==
  {s \in sessions : s.userId # userId}
    \cup {[id |-> id, userId |-> userId, expired |-> FALSE]}

isAuthenticated == auth.user # Null /\ auth.session # Null

Pending(op, stage, sessionId, user, session) ==
  [op |-> op, stage |-> stage, sessionId |-> sessionId, user |-> user, session |-> session]

CanCall == Cardinality(auth.pending) < MaxPending

ClientStep ==
  UNCHANGED gateVars /\ UNCHANGED <<users, accounts, deals, members, inflight, touched>>
    /\ UNCHANGED flowVars

\* AuthProvider mounts while the module stays loaded: fresh state, then the
\* effect runs checkExistingSession up to its await of verifySession, whose
\* body has looked the session up by then.
Mount ==
  /\ auth.pending = {}
  /\ IF auth.stored = None
     THEN auth' = [auth EXCEPT !.user = Null, !.session = Null, !.loading = FALSE]
     ELSE auth' = [auth EXCEPT
            !.user = Null, !.session = Null, !.loading = TRUE,
            !.pending = {Pending("checkExistingSession", "return", auth.stored,
                                 verifySession(auth.sessions, auth.users, auth.stored),
                                 Null)}]
  /\ ClientStep

CheckExistingSession_resume ==
  \E c \in auth.pending :
    /\ c.op = "checkExistingSession"
    /\ IF c.user # Null
       THEN auth' = [auth EXCEPT
              !.user = c.user,
              !.session = [id |-> c.sessionId, userId |-> c.user.id],
              !.loading = FALSE,
              !.pending = auth.pending \ {c}]
       ELSE auth' = [auth EXCEPT
              !.stored = None,
              !.loading = FALSE,
              !.pending = auth.pending \ {c}]
    /\ ClientStep

\* login(email, password): AuthService.login finds the user by email, returns
\* the error result if there is none, and else awaits verifyPassword, which
\* accepts the one hash every row has.
Login_call ==
  \E u \in auth.users \cup {Null} :
    /\ CanCall
    /\ auth' = [auth EXCEPT !.pending = auth.pending \cup
                  {Pending("login", IF u = Null THEN "return" ELSE "createSession",
                           None, u, Null)}]
    /\ ClientStep

\* register(name, email, password): the error result if the email is taken,
\* else AuthService.register awaits hashPassword.
Register_call ==
  \E taken \in BOOLEAN :
    /\ CanCall
    /\ Cardinality(auth.users) < Cardinality(mockUsers) + MaxRegistered
    /\ \A c \in auth.pending : c.op # "register"
    /\ auth' = [auth EXCEPT !.pending = auth.pending \cup
                  {IF taken THEN Pending("register", "return", None, Null, Null)
                   ELSE Pending("register", "createSession", None,
                                newUser(Cardinality(auth.users) + 1), Null)}]
    /\ ClientStep

\* AuthService.login / register after their first await: register pushes the
\* new row; both call createSession and await it.
AuthService_createSession ==
  \E c \in auth.pending :
    /\ c.stage = "createSession"
    /\ auth.issued < MaxSessions
    /\ LET id == "s" \o ToString(auth.issued + 1) IN
       auth' = [auth EXCEPT
         !.users = auth.users \cup {c.user},
         !.sessions = createSession(auth.sessions, c.user.id, id),
         !.issued = auth.issued + 1,
         !.pending = (auth.pending \ {c}) \cup
                       {Pending(c.op, "return", None, c.user,
                                [id |-> id, userId |-> c.user.id])}]
    /\ ClientStep

\* The provider's continuation of login and of register.
Login_resume ==
  \E c \in auth.pending :
    /\ c.op \in {"login", "register"}
    /\ c.stage = "return"
    /\ IF c.user # Null /\ c.session # Null
       THEN auth' = [auth EXCEPT
              !.user = c.user, !.session = c.session, !.stored = c.session.id,
              !.pending = auth.pending \ {c}]
       ELSE auth' = [auth EXCEPT !.pending = auth.pending \ {c}]
    /\ ClientStep

\* logout(): without a session nothing is awaited; with one, AuthService.logout
\* has spliced it out of sessions when the await yields.
Logout_call ==
  /\ CanCall
  /\ IF auth.session = Null
     THEN auth' = [auth EXCEPT !.user = Null, !.session = Null, !.stored = None]
     ELSE auth' = [auth EXCEPT
            !.sessions = {s \in auth.sessions : s.id # auth.session.id},
            !.pending = auth.pending \cup
                          {Pending("logout", "return", auth.session.id, Null, Null)}]
  /\ ClientStep

Logout_resume ==
  \E c \in auth.pending :
    /\ c.op = "logout"
    /\ auth' = [auth EXCEPT !.user = Null, !.session = Null, !.stored = None,
                            !.pending = auth.pending \ {c}]
    /\ ClientStep

\* A session's expiresAt passes (24 hours after createSession).
Expire ==
  \E s \in auth.sessions :
    /\ ~s.expired
    /\ auth' = [auth EXCEPT
         !.sessions = (auth.sessions \ {s}) \cup {[s EXCEPT !.expired = TRUE]}]
    /\ ClientStep

-----------------------------------------------------------------------------
(* The copies of the access check outside lib/auth: the permissions API
   (app/api/auth/permissions/route.ts) and the client route guards
   (components/auth/protected-route.tsx in its AuthContext and next-auth
   versions, ProtectedPage, and the react-router ProtectedRoute). *)

ClientOrgs == {"org-1", "org-2"}

\* The user object a guard gets from useAuth() or from useSession(): its role is
\* cast to UserRole, not validated.
ClientUsers == [id : {"1"}, role : RoleStrings, organizationId : ClientOrgs]

\* requiredRole?: UserRole | UserRole[]
RequiredRoles ==
  {[given |-> FALSE, roles |-> {}]} \cup {[given |-> TRUE, roles |-> {r}] : r \in UserRole}
    \cup {[given |-> TRUE, roles |-> S] : S \in SUBSET UserRole}

\* GET of the permissions API: 401 without a principal, else the hasAccess
\* field of the response.
hasAccess(h, requiredRole, organizationId) ==
  LET user == getCurrentUserFromHeaders(h)
      hasRequiredRole == IF requiredRole # None
                         THEN checkRole(user.role, requiredRole) ELSE TRUE
      hasOrganizationAccess == IF organizationId # None
                               THEN user.organizationId = organizationId ELSE TRUE IN
  IF user = Null THEN "401"
  ELSE IF hasRequiredRole /\ hasOrganizationAccess THEN "hasAccess:true"
  ELSE "hasAccess:false"

\* checkPermissions without the organization comparison.
checkPermissions_NoOrganization(user, requiredRole, organizationId) ==
  user # Null /\ RankAtLeast(user.role, requiredRole)

checkPermissions(user, requiredRole, organizationId) ==
  IF user = Null THEN FALSE
  ELSE IF ~RankAtLeast(user.role, requiredRole) THEN FALSE
  ELSE IF organizationId # None /\ user.organizationId # organizationId THEN FALSE
  ELSE TRUE

\* What ProtectedRoute renders. The two versions differ in where the state comes
\* from: loading / isAuthenticated / user of useAuth(), or status === 'loading' /
\* status === 'authenticated' / session.user of useSession().
ProtectedRoute(loading, authenticated, user, requiredRole, organizationId) ==
  IF loading THEN "spinner"
  ELSE IF ~authenticated
          \/ (user # Null /\ ~checkPermissions(user, requiredRole, organizationId))
       THEN "fallback"
  ELSE "children"

ProtectedPage(loading, authenticated, user, requiredRole) ==
  IF loading THEN "loading"
  ELSE IF ~authenticated \/ user = Null THEN "null"
  ELSE IF requiredRole.given /\ user.role \notin requiredRole.roles THEN "null"
  ELSE "children"

reactRouter_ProtectedRoute(loading, authenticated, user, requiredRole, allowUnauthenticated) ==
  IF loading THEN "loading"
  ELSE IF ~allowUnauthenticated /\ (~authenticated \/ user = Null)
       THEN "navigate:/auth/login"
  ELSE IF requiredRole.given /\ user # Null /\ user.role \notin requiredRole.roles
       THEN "navigate:/dashboard"
  ELSE "children"

\* searchParams.get('role') and searchParams.get('organizationId'): absent or
\* empty is None.
GET ==
  \E role \in UserRole \cup {None}, organizationId \in OrgIds \cup {None} :
    /\ Ready
    /\ call' = [fn |-> "permissions.GET", role |-> role, organizationId |-> organizationId]
    /\ outcome' = hasAccess(hdr, role, organizationId)
    /\ UNCHANGED <<hdr, sess>> /\ UNCHANGED dbVars /\ UNCHANGED clientVars /\ UNCHANGED flowVars

CheckPermissions ==
  \E user \in ClientUsers \cup {Null}, requiredRole \in UserRole,
     organizationId \in ClientOrgs \cup {None} :
    /\ ~InRequest
    /\ call' = [fn |-> "checkPermissions", user |-> user, requiredRole |-> requiredRole,
                organizationId |-> organizationId]
    /\ outcome' = Returned(checkPermissions(user, requiredRole, organizationId))
    /\ UNCHANGED <<hdr, sess>> /\ UNCHANGED dbVars /\ UNCHANGED clientVars /\ UNCHANGED flowVars

\* The state a guard renders with. AuthProvider sets user and session together,
\* so isAuthenticated is "user is set"; useSession() delivers a session with
\* its user whenever status is 'authenticated'.
RenderProtectedRoute ==
  \E version \in {"AuthContext", "next-auth"}, loading \in BOOLEAN,
     user \in ClientUsers \cup {Null}, requiredRole \in UserRole \cup {None},
     organizationId \in ClientOrgs \cup {None} :
    /\ ~InRequest
    /\ version = "next-auth" /\ loading => user = Null
    /\ call' = [fn |-> "ProtectedRoute", version |-> version, loading |-> loading,
                authenticated |-> user # Null, user |-> user,
                requiredRole |-> IF requiredRole = None THEN "USER" ELSE requiredRole,
                organizationId |-> organizationId]
    /\ outcome' = ProtectedRoute(loading, user # Null, user,
                                 IF requiredRole = None THEN "USER" ELSE requiredRole,
                                 organizationId)
    /\ UNCHANGED <<hdr, sess>> /\ UNCHANGED dbVars /\ UNCHANGED clientVars /\ UNCHANGED flowVars

RenderProtectedPage ==
  \E loading \in BOOLEAN, user \in ClientUsers \cup {Null}, requiredRole \in RequiredRoles :
    /\ ~InRequest
    /\ call' = [fn |-> "ProtectedPage", loading |-> loading, authenticated |-> user # Null,
                user |-> user, requiredRole |-> requiredRole]
    /\ outcome' = ProtectedPage(loading, user # Null, user, requiredRole)
    /\ UNCHANGED <<hdr, sess>> /\ UNCHANGED dbVars /\ UNCHANGED clientVars /\ UNCHANGED flowVars

RenderReactRouterProtectedRoute ==
  \E loading \in BOOLEAN, user \in ClientUsers \cup {Null}, requiredRole \in RequiredRoles,
     allowUnauthenticated \in BOOLEAN :
    /\ ~InRequest
    /\ call' = [fn |-> "reactRouter.ProtectedRoute", loading |-> loading,
                authenticated |-> user # Null, user |-> user,
                requiredRole |-> requiredRole,
                allowUnauthenticated |-> allowUnauthenticated]
    /\ outcome' = reactRouter_ProtectedRoute(loading, user # Null, user, requiredRole,
                                             allowUnauthenticated)
    /\ UNCHANGED <<hdr, sess>> /\ UNCHANGED dbVars /\ UNCHANGED clientVars /\ UNCHANGED flowVars

-----------------------------------------------------------------------------
(* AuthService.getOrganizationUsers, over the user table it reads *)

\* A requestingUserId that no row has.
MissingUser == "user0"

\* prisma.user with the two columns the method reads.
UserTables == [UserIds -> [organizationId : OrgIds, role : UserRole]]

validateUserOrganizationAccess(rows, userId, organizationId) ==
  userId \in DOMAIN rows /\ rows[userId].organizationId = organizationId

\* The ids of the rows findMany returns; the roleFilter is built only when
\* minRole is given.
getOrganizationUsers(rows, organizationId, requestingUserId, minRole) ==
  LET role == rows[requestingUserId].role
      roleFilter(u) ==
        IF minRole = None THEN TRUE
        ELSE IF role = "USER" THEN u = requestingUserId
        ELSE IF role = "ADMIN" THEN u = requestingUserId \/ rows[u].role = "USER"
        ELSE TRUE IN
  {u \in DOMAIN rows : rows[u].organizationId = organizationId /\ roleFilter(u)}

GetOrganizationUsers ==
  \E rows \in UserTables, organizationId \in OrgIds,
     requestingUserId \in UserIds \cup {MissingUser},
     minRole \in {None, "OWNER", "ADMIN", "USER"} :
    /\ ~InRequest
    /\ LET ok == validateUserOrganizationAccess(rows, requestingUserId, organizationId) IN
       /\ call' = [fn |-> "getOrganizationUsers", rows |-> rows,
                   organizationId |-> organizationId,
                   requestingUserId |-> requestingUserId, minRole |-> minRole,
                   returned |-> IF ok
                                THEN getOrganizationUsers(rows, organizationId,
                                                          requestingUserId, minRole)
                                ELSE {}]
       /\ outcome' = IF ok THEN "users"
                     ELSE "throw:User does not have access to this organization"
    /\ UNCHANGED <<hdr, sess>> /\ UNCHANGED dbVars /\ UNCHANGED clientVars /\ UNCHANGED flowVars

-----------------------------------------------------------------------------
(* The database, as far as the checks read it. Columns that no modelled
   check reads (name, email, role, deletedAt, createdBy, ...) are left out: a
   write to them shows in `touched` only. Soft deletes keep the row. *)

OrgOfIndex(i) == "org" \o ToString(((i - 1) % MaxOrgs) + 1)

\* User i of the seeded database belongs to organization ((i-1) mod MaxOrgs)+1,
\* and so does account i.
SeedUsers ==
  [u \in UserIds |->
     LET i == CHOOSE k \in 1..MaxUsers : u = "user" \o ToString(k) IN
     [organizationId |-> OrgOfIndex(i)]]

SeedAccounts ==
  [a \in AccountIds |->
     LET i == CHOOSE k \in 1..MaxAccounts : a = "acc" \o ToString(k) IN
     [exists |-> TRUE, organizationId |-> OrgOfIndex(i)]]

NoAccount == [exists |-> FALSE, organizationId |-> None]
NoDeal == [exists |-> FALSE, organizationId |-> None, accountId |-> None, assignedToId |-> None]

NoTouch == [op |-> "none", organizationId |-> None, orgs |-> {}]

DbIdle ==
  /\ users = SeedUsers
  /\ accounts = SeedAccounts
  /\ deals = [d \in DealIds |-> NoDeal]
  /\ members = {}
  /\ inflight = {}
  /\ touched = NoTouch

-----------------------------------------------------------------------------
(* services: BaseService and the services derived from it. Every guarded method
   awaits an ownership check and then awaits its query: other calls run between
   the two. *)

\* AuthService.getContext: the context carries the organization the caller's
\* user row has when the request starts.
ServiceContexts == {[organizationId |-> users[u].organizationId] : u \in UserIds}

\* prisma[modelName].findFirst({ where: { id, organizationId } }) !== null
validateOwnership(modelName, id, organizationId) ==
  CASE modelName = "account" ->
         accounts[id].exists /\ accounts[id].organizationId = organizationId
    [] modelName = "deal" ->
         deals[id].exists /\ deals[id].organizationId = organizationId
    [] modelName = "user" ->
         users[id].organizationId = organizationId

OrgsOfUsers(us) == {users[u].organizationId : u \in us}
DealsOfAccount(a) == {d \in DealIds : deals[d].exists /\ deals[d].accountId = a}
AssigneesOf(ds) == {deals[d].assignedToId : d \in ds} \ {None}
MembersOf(a) == {u \in UserIds : <<a, u>> \in members}

Touch(op, ctx, orgs) == [op |-> op, organizationId |-> ctx.organizationId, orgs |-> orgs]

\* The first await of a guarded method: on success the call is in flight, on
\* failure it returns null or throws and has touched nothing.
Guarded(op, id, arg, ctx, ok) ==
  /\ touched = NoTouch
  /\ Cardinality(inflight) < MaxInFlight
  /\ IF ok
     THEN /\ inflight' = inflight \cup {[op |-> op, id |-> id, arg |-> arg, ctx |-> ctx]}
          /\ touched' = touched
     ELSE /\ inflight' = inflight
          /\ touched' = Touch(op, ctx, {})
  /\ UNCHANGED <<users, accounts, deals, members>>
  /\ UNCHANGED gateVars /\ UNCHANGED clientVars /\ UNCHANGED flowVars

\* The second await of the call c: it leaves the set of calls in flight.
Finish(c, orgs) ==
  /\ inflight' = inflight \ {c}
  /\ touched' = Touch(c.op, c.ctx, orgs)
  /\ UNCHANGED gateVars /\ UNCHANGED clientVars /\ UNCHANGED flowVars

\* The caller has taken the result of the last call.
Return ==
  /\ touched # NoTouch
  /\ touched' = NoTouch
  /\ UNCHANGED <<users, accounts, deals, members, inflight>>
  /\ UNCHANGED gateVars /\ UNCHANGED clientVars /\ UNCHANGED flowVars

(* AccountService *)

AccountCreate ==
  \E ctx \in ServiceContexts, a \in AccountIds :
    /\ touched = NoTouch
    /\ ~accounts[a].exists
    /\ accounts' = [accounts EXCEPT ![a] =
                      [exists |-> TRUE, organizationId |-> ctx.organizationId]]
    /\ touched' = Touch("account.create", ctx, {ctx.organizationId})
    /\ UNCHANGED <<users, deals, members, inflight>>
    /\ UNCHANGED gateVars /\ UNCHANGED clientVars /\ UNCHANGED flowVars

AccountFindById_validate ==
  \E ctx \in ServiceContexts, a \in AccountIds :
    Guarded("account.findById", a, None, ctx,
            validateOwnership("account", a, ctx.organizationId))

\* findFirst({ where: { id, organizationId }, include: { contacts, deals, projects } })
AccountFindById_query ==
  \E c \in inflight :
    /\ c.op = "account.findById"
    /\ Finish(c, IF accounts[c.id].exists /\ accounts[c.id].organizationId = c.ctx.organizationId
                 THEN {accounts[c.id].organizationId}
                        \cup {deals[d].organizationId : d \in DealsOfAccount(c.id)}
                 ELSE {})
    /\ UNCHANGED <<users, accounts, deals, members>>

AccountUpdate_validate ==
  \E ctx \in ServiceContexts, a \in AccountIds :
    Guarded("account.update", a, None, ctx,
            validateOwnership("account", a, ctx.organizationId))

\* prisma.account.update({ where: { id }, data })
AccountUpdate_query ==
  \E c \in inflight :
    /\ c.op = "account.update"
    /\ Finish(c, {accounts[c.id].organizationId})
    /\ UNCHANGED <<users, accounts, deals, members>>

AccountDelete_validate ==
  \E ctx \in ServiceContexts, a \in AccountIds :
    Guarded("account.delete", a, None, ctx,
            validateOwnership("account", a, ctx.organizationId))

\* prisma.account.update({ where: { id }, data: { deletedAt } })
AccountDelete_query ==
  \E c \in inflight :
    /\ c.op = "account.delete"
    /\ Finish(c, {accounts[c.id].organizationId})
    /\ UNCHANGED <<users, accounts, deals, members>>

GetAccountMembers_validate ==
  \E ctx \in ServiceContexts, a \in AccountIds :
    Guarded("account.getAccountMembers", a, None, ctx,
            validateOwnership("account", a, ctx.organizationId))

\* accountMember.findMany({ where: { accountId }, include: { user: { id, name, email } } })
GetAccountMembers_query ==
  \E c \in inflight :
    /\ c.op = "account.getAccountMembers"
    /\ Finish(c, IF MembersOf(c.id) = {} THEN {}
                 ELSE {accounts[c.id].organizationId} \cup OrgsOfUsers(MembersOf(c.id)))
    /\ UNCHANGED <<users, accounts, deals, members>>

AddAccountMember_validate ==
  \E ctx \in ServiceContexts, a \in AccountIds, u \in UserIds :
    Guarded("account.addAccountMember", a, u, ctx,
            validateOwnership("account", a, ctx.organizationId))

\* accountMember.create({ data: { accountId, userId, addedBy } }); the pair is unique
AddAccountMember_query ==
  \E c \in inflight :
    /\ c.op = "account.addAccountMember"
    /\ IF <<c.id, c.arg>> \in members
       THEN /\ members' = members
            /\ Finish(c, {})
       ELSE /\ members' = members \cup {<<c.id, c.arg>>}
            /\ Finish(c, {accounts[c.id].organizationId})
    /\ UNCHANGED <<users, accounts, deals>>

(* DealService *)

\* account.findFirst({ where: { id: data.accountId, organizationId } })
DealCreate_validate ==
  \E ctx \in ServiceContexts, a \in AccountIds, u \in UserIds \cup {None} :
    Guarded("deal.create", a, u, ctx,
            accounts[a].exists /\ accounts[a].organizationId = ctx.organizationId)

\* deal.create({ data: { ...data, organizationId, createdBy } })
DealCreate_query ==
  \E c \in inflight, d \in DealIds :
    /\ c.op = "deal.create"
    /\ ~deals[d].exists
    /\ deals' = [deals EXCEPT ![d] =
                   [exists |-> TRUE, organizationId |-> c.ctx.organizationId,
                    accountId |-> c.id, assignedToId |-> c.arg]]
    /\ Finish(c, {c.ctx.organizationId})
    /\ UNCHANGED <<users, accounts, members>>

DealFindById_validate ==
  \E ctx \in ServiceContexts, d \in DealIds :
    Guarded("deal.findById", d, None, ctx,
            validateOwnership("deal", d, ctx.organizationId))

\* findFirst({ where: { id, organizationId }, include: { account, assignedTo: { id, name, email } } })
DealFindById_query ==
  \E c \in inflight :
    /\ c.op = "deal.findById"
    /\ Finish(c, IF deals[c.id].exists /\ deals[c.id].organizationId = c.ctx.organizationId
                 THEN {deals[c.id].organizationId, accounts[deals[c.id].accountId].organizationId}
                        \cup OrgsOfUsers(AssigneesOf({c.id}))
                 ELSE {})
    /\ UNCHANGED <<users, accounts, deals, members>>

DealUpdate_validate ==
  \E ctx \in ServiceContexts, d \in DealIds, u \in UserIds \cup {None} :
    Guarded("deal.update", d, u, ctx,
            validateOwnership("deal", d, ctx.organizationId))

\* prisma.deal.update({ where: { id }, data }); data may carry assignedToId
DealUpdate_query ==
  \E c \in inflight :
    /\ c.op = "deal.update"
    /\ deals' = IF c.arg = None THEN deals
                ELSE [deals EXCEPT ![c.id].assignedToId = c.arg]
    /\ Finish(c, {deals[c.id].organizationId})
    /\ UNCHANGED <<users, accounts, members>>

DealDelete_validate ==
  \E ctx \in ServiceContexts, d \in DealIds :
    Guarded("deal.delete", d, None, ctx,
            validateOwnership("deal", d, ctx.organizationId))

DealDelete_query ==
  \E c \in inflight :
    /\ c.op = "deal.delete"
    /\ Finish(c, {deals[c.id].organizationId})
    /\ UNCHANGED <<users, accounts, deals, members>>

GetDealsByAccount_validate ==
  \E ctx \in ServiceContexts, a \in AccountIds :
    Guarded("deal.getDealsByAccount", a, None, ctx,
            accounts[a].exists /\ accounts[a].organizationId = ctx.organizationId)

\* deal.findMany({ where: { accountId }, include: { account, assignedTo } })
GetDealsByAccount_query ==
  \E c \in inflight :
    /\ c.op = "deal.getDealsByAccount"
    /\ Finish(c, IF DealsOfAccount(c.id) = {} THEN {}
                 ELSE {deals[d].organizationId : d \in DealsOfAccount(c.id)}
                        \cup {accounts[c.id].organizationId}
                        \cup OrgsOfUsers(AssigneesOf(DealsOfAccount(c.id))))
    /\ UNCHANGED <<users, accounts, deals, members>>

(* UserService *)

UserFindById_validate ==
  \E ctx \in ServiceContexts, u \in UserIds :
    Guarded("user.findById", u, None, ctx,
            validateOwnership("user", u, ctx.organizationId))

UserFindById_query ==
  \E c \in inflight :
    /\ c.op = "user.findById"
    /\ Finish(c, IF users[c.id].organizationId = c.ctx.organizationId
                 THEN {users[c.id].organizationId} ELSE {})
    /\ UNCHANGED <<users, accounts, deals, members>>

UserUpdate_validate ==
  \E ctx \in ServiceContexts, u \in UserIds :
    Guarded("user.update", u, None, ctx,
            validateOwnership("user", u, ctx.organizationId))

\* prisma.user.update({ where: { id }, data }); data is { name?, role? }
UserUpdate_query ==
  \E c \in inflight :
    /\ c.op = "user.update"
    /\ Finish(c, {users[c.id].organizationId})
    /\ UNCHANGED <<users, accounts, deals, members>>

UserDelete_validate ==
  \E ctx \in ServiceContexts, u \in UserIds :
    Guarded("user.delete", u, None, ctx,
            validateOwnership("user", u, ctx.organizationId))

UserDelete_query ==
  \E c \in inflight :
    /\ c.op = "user.delete"
    /\ Finish(c, {users[c.id].organizationId})
    /\ UNCHANGED <<users, accounts, deals, members>>

(* AuthService *)

\* The organization lookup always succeeds (organizations are never removed);
\* then prisma.user.update({ where: { id: userId }, data: { organizationId, role } }).
AddUserToOrganization ==
  \E u \in UserIds, o \in OrgIds :
    /\ users[u].organizationId # o
    /\ users' = [users EXCEPT ![u].organizationId = o]
    /\ UNCHANGED <<accounts, deals, members, inflight, touched>>
    /\ UNCHANGED gateVars /\ UNCHANGED clientVars /\ UNCHANGED flowVars

-----------------------------------------------------------------------------
(* ServiceSpec: service calls of any callers, interleaved at their awaits *)

ServiceInit ==
  /\ hdr = NoHeaders
  /\ sess = Null
  /\ call = Idle
  /\ outcome = None
  /\ users = SeedUsers
  /\ accounts = [a \in AccountIds |-> NoAccount]
  /\ deals = [d \in DealIds |-> NoDeal]
  /\ members = {}
  /\ inflight = {}
  /\ touched = NoTouch
  /\ FlowIdle
  /\ ClientIdle

ServiceNext ==
  \/ Return
  \/ AccountCreate
  \/ AccountFindById_validate
  \/ AccountFindById_query
  \/ AccountUpdate_validate
  \/ AccountUpdate_query
  \/ AccountDelete_validate
  \/ AccountDelete_query
  \/ GetAccountMembers_validate
  \/ GetAccountMembers_query
  \/ AddAccountMember_validate
  \/ AddAccountMember_query
  \/ DealCreate_validate
  \/ DealCreate_query
  \/ DealFindById_validate
  \/ DealFindById_query
  \/ DealUpdate_validate
  \/ DealUpdate_query
  \/ DealDelete_validate
  \/ DealDelete_query
  \/ GetDealsByAccount_validate
  \/ GetDealsByAccount_query
  \/ UserFindById_validate
  \/ UserFindById_query
  \/ UserUpdate_validate
  \/ UserUpdate_query
  \/ UserDelete_validate
  \/ UserDelete_query
  \/ AddUserToOrganization

ServiceSpec == ServiceInit /\ [][ServiceNext]_vars

\* C4: no findById, update, delete, getAccountMembers, addAccountMember or
\* getDealsByAccount call has read or written a record whose organizationId
\* differs from the organizationId of the context it was issued with. (No
\* context of the model is a SUPER_ADMIN's: the services never read the role.)
C4_ServicesStayInTenant ==
  touched.op \in {"account.findById", "account.update", "account.delete",
                  "account.getAccountMembers", "account.addAccountMember",
                  "deal.findById", "deal.update", "deal.delete",
                  "deal.getDealsByAccount",
                  "user.findById", "user.update", "user.delete"}
    => touched.orgs \subseteq {touched.organizationId}

-----------------------------------------------------------------------------
(* GateSpec: requests arriving with arbitrary evidence, each followed by any
   calls of the gate functions *)

GateInit ==
  /\ hdr = NoHeaders
  /\ sess = Null
  /\ call = Idle
  /\ outcome = None
  /\ DbIdle
  /\ FlowIdle
  /\ ClientIdle

GateNext ==
  \/ NewRequest
  \/ EndRequest
  \/ HasRole
  \/ IsInOrganization
  \/ CanAccessResource
  \/ RbacGuard
  \/ RequireAuth
  \/ RequireRole
  \/ RequireOrganization
  \/ SessionHasRole
  \/ SessionIsInOrganization
  \/ SessionCanAccessResource
  \/ SessionRbacGuard
  \/ DeleteAccount

GateSpec == GateInit /\ [][GateNext]_vars

-----------------------------------------------------------------------------
(* Properties of the gate *)

\* The principal the header gate resolves for the request, and the one getAuth does.
Principal == getCurrentUserFromHeaders(hdr)
SessionPrincipal == getAuth(hdr, sess)

OrgGateFns == {"canAccessResource", "rbacGuard", "requireRole"}
SessionOrgGateFns == {"session.canAccessResource", "session.rbacGuard"}

Denied == outcome \in {"false", "redirect:/unauthorized"}

C2_SuperAdminAnyOrganization ==
  /\ (/\ call.fn \in {"canAccessResource", "rbacGuard"}
      /\ Principal # Null
      /\ Principal.role = "SUPER_ADMIN")
     => outcome = "true"
  /\ (/\ call.fn \in SessionOrgGateFns
      /\ SessionPrincipal # Null
      /\ SessionPrincipal.role = "SUPER_ADMIN")
     => outcome = "true"

\* C2 witness: a SUPER_ADMIN passes rbacGuard for another organization's resource.
C2_Witness ==
  /\ call.fn = "rbacGuard"
  /\ Principal # Null
  /\ Principal.role = "SUPER_ADMIN"
  /\ call.organizationId # None
  /\ call.organizationId # Principal.organizationId
  /\ outcome = "true"

\* C3: for an authenticated principal requireOrganization(organizationId) signals
\* Forbidden (the redirect to /unauthorized) if and only if the principal's
\* organizationId differs from organizationId and its role is not SUPER_ADMIN.
C3_RequireOrganizationIsStep4 ==
  (call.fn = "requireOrganization" /\ Principal # Null)
    => ( outcome = "redirect:/unauthorized"
         <=> ( /\ Principal.organizationId # call.organizationId
               /\ Principal.role # "SUPER_ADMIN" ) )

-----------------------------------------------------------------------------
(* PermSpec: the permission table and the server-action gate *)

PermNext ==
  \/ NewHeaderRequest
  \/ EndRequest
  \/ HasPermission
  \/ CanAccessAccount
  \/ ActionRequireAuth
  \/ RequirePermission
  \/ DeleteAccount

PermSpec == GateInit /\ [][PermNext]_vars

-----------------------------------------------------------------------------
(* Properties of the permission table and the server-action gate *)

Entity(p) == p[1]
Action(p) == p[2]
Scope(p) == p[3]

NarrowScopes == {"own", "assigned", "member"}

\* q is p itself, or the ':all' or unscoped token of p's entity:action family.
EqualOrBroader(q, p) ==
  /\ Entity(q) = Entity(p)
  /\ Action(q) = Action(p)
  /\ (q = p \/ Scope(q) = "all" \/ Scope(q) = "")

\* C5: the role-permission table is monotonic. Whenever hasPermission(r1, p) is
\* true, every role r2 ranked at or above r1 in USER < ADMIN < OWNER <
\* SUPER_ADMIN holds a token of p's entity:action family with equal or broader
\* scope: p itself, its ':all' variant or its unscoped variant.
C5_TableMonotonic ==
  (call.fn = "hasPermission" /\ outcome = "true")
    => \A r2 \in UserRole :
         RankAtLeast(r2, call.userRole)
           => \E q \in Permission :
                hasPermission(r2, q) /\ EqualOrBroader(q, call.permission)

\* C5 witness: USER holds 'account:read:own', which the roles above hold as ':all'.
C5_Witness ==
  /\ call.fn = "hasPermission"
  /\ call.userRole = "USER"
  /\ call.permission = P("account", "read", "own")
  /\ outcome = "true"

\* C6: SUPER_ADMIN has all permissions: hasPermission('SUPER_ADMIN', p) is true
\* for every token p of the Permission type.
C6_SuperAdminHasAllPermissions ==
  (call.fn = "hasPermission" /\ call.userRole = "SUPER_ADMIN"
     /\ call.permission \in Permission)
    => outcome = "true"

\* The request reached the permission evaluator with the role r.
Evaluated(r) ==
  /\ call.fn = "requirePermission"
  /\ action_requireAuth(hdr) = "ok"
  /\ hdr.userRole = r

HoldsOnlyBroader(r, p) ==
  /\ p \notin ROLE_PERMISSIONS[r]
  /\ \/ P(Entity(p), Action(p), "all") \in ROLE_PERMISSIONS[r]
     \/ P(Entity(p), Action(p), "") \in ROLE_PERMISSIONS[r]

\* C7: when the role holds only the unscoped or ':all' variant of an
\* entity:action family, requirePermission allows a request for a narrower
\* token of that family (':own', ':assigned', ':member') unconditionally.
C7_BroaderVariantAllowsNarrower ==
  \A r \in UserRole :
    (/\ Evaluated(r)
     /\ Scope(call.permission) \in NarrowScopes
     /\ HoldsOnlyBroader(r, call.permission))
    => outcome = "ok"

\* C8: a token scoped ':own', ':assigned' or ':member' is never allowed without
\* a scope proof. requirePermission receives the token alone, no membership or
\* assignment fact, so for such a token it never yields allow.
C8_NarrowScopeNeedsProof ==
  (call.fn = "requirePermission" /\ Scope(call.permission) \in NarrowScopes)
    => outcome # "ok"

\* C9: canAccessAccount checks membership. For a role holding 'account:read:own'
\* and not 'account:read:all' it is true iff the account is in user.accountIds;
\* for a role holding 'account:read:all' it is true for every account id; for a
\* role holding neither it is false.
C9_CanAccessAccountChecksMembership ==
  call.fn = "canAccessAccount"
    => LET held == ROLE_PERMISSIONS[call.user.role]
           all == P("account", "read", "all") \in held
           own == P("account", "read", "own") \in held
       IN /\ all => outcome = "true"
          /\ (own /\ ~all)
               => (outcome = "true" <=> call.accountId \in call.user.accountIds)
          /\ (~own /\ ~all) => outcome = "false"

\* C9 witness: a USER who is a member of some account is refused another one.
C9_Witness ==
  /\ call.fn = "canAccessAccount"
  /\ call.user.role = "USER"
  /\ call.user.accountIds # {}
  /\ call.accountId \notin call.user.accountIds
  /\ outcome = "false"

\* C10: USER has limited permissions. hasPermission('USER', p) is false for
\* every ':all' token, every delete token, 'organization:update',
\* 'organization:manage_users' and every 'system:*' token, and true for the
\* scoped tokens assigned to USER.
C10_UserHasLimitedPermissions ==
  (call.fn = "hasPermission" /\ call.userRole = "USER")
    => LET p == call.permission IN
       /\ ( \/ Scope(p) = "all"
            \/ Action(p) = "delete"
            \/ p \in {P("organization", "update", ""), P("organization", "manage_users", "")}
            \/ Entity(p) = "system" )
          => outcome = "false"
       /\ p \in {P("account", "read", "own"),
                 P("deal", "read", "assigned"), P("deal", "update", "assigned"),
                 P("project", "read", "member"), P("project", "update", "member"),
                 P("task", "update", "assigned")}
          => outcome = "true"

\* C10 witness: USER is refused 'account:delete:all'.
C10_Witness ==
  /\ call.fn = "hasPermission"
  /\ call.userRole = "USER"
  /\ call.permission = P("account", "delete", "all")
  /\ outcome = "false"

-----------------------------------------------------------------------------
(* The gate as a per-request state machine *)

FlowNext ==
  \/ NewHeaderRequest
  \/ EndRequest
  \/ EnterRequireRole
  \/ EnterRequireOrganization
  \/ EnterRequirePermission
  \/ RequireAuthStep
  \/ RbacGuardStep
  \/ IsInOrganizationStep
  \/ HasPermissionStep

FlowSpec == GateInit /\ [][FlowNext]_vars

EvaluatorSteps == {"rbacGuard", "isInOrganization", "hasPermission"}

FailureOutcomes ==
  {"redirect:/auth/login", "redirect:/unauthorized", "throw:Unauthorized", "throw:TypeError"}

\* Unresolved: no step done. Authenticated: requireAuth returned a principal.
\* Authorized / Forbidden / Unauthenticated: the function has ended.
GateState ==
  CASE outcome = "ok" -> "Authorized"
    [] outcome = "redirect:/auth/login" -> "Unauthenticated"
    [] outcome \in FailureOutcomes \ {"redirect:/auth/login"} -> "Forbidden"
    [] trace # <<>> -> "Authenticated"
    [] OTHER -> "Unresolved"

\* The evaluator runs second, after a requireAuth that returned a principal,
\* and a request without evidence ends at requireAuth.
EvaluatorOnlyAfterRequireAuth ==
  /\ \A i \in 1..Len(trace) :
       trace[i].fn \in EvaluatorSteps =>
         /\ i = 2
         /\ trace[1] = Step("requireAuth", "ok")
         /\ hdr.userId # None /\ hdr.organizationId # None
  /\ (hdr.userId = None \/ hdr.organizationId = None) /\ pc = "done" =>
       /\ outcome = "redirect:/auth/login"
       /\ trace = <<Step("requireAuth", "redirect:/auth/login")>>

\* C11: per request the gate goes Unresolved -> Authenticated -> {Authorized,
\* Forbidden} and stops at the first failure: the role or permission evaluator
\* runs only after requireAuth resolved a principal, a request without session
\* evidence ends Unauthenticated (redirect to login) without reaching the
\* evaluator, and no step runs after a failure outcome.
C11_GateStopsAtFirstFailure ==
  [][ /\ EvaluatorOnlyAfterRequireAuth
      /\ outcome \in FailureOutcomes /\ call' = call => trace' = trace /\ outcome' = outcome
      /\ call' = call /\ GateState' # GateState =>
           <<GateState, GateState'>> \in
             { <<"Unresolved", "Authenticated">>, <<"Unresolved", "Unauthenticated">>,
               <<"Authenticated", "Authorized">>, <<"Authenticated", "Forbidden">> } ]_vars

\* requirePermission ended at requireAuth for a request without x-user-id.
C11_Witness ==
  /\ call.fn = "requirePermission"
  /\ hdr.userId = None
  /\ pc = "done"
  /\ outcome = "redirect:/auth/login"

-----------------------------------------------------------------------------
(* The claims resolvers *)

ResolverNext ==
  \/ NewRequest
  \/ EndRequest
  \/ GetCurrentUserFromHeaders
  \/ GetAuth
  \/ GetAuthCookie
  \/ GetContext

ResolverSpec == GateInit /\ [][ResolverNext]_vars

\* The header path of getAuth is not taken: one of the three headers is missing.
HeadersIncomplete == hdr.userId = None \/ hdr.userRole = None \/ hdr.organizationId = None

\* C12: a missing organization assignment is unresolved: getCurrentUserFromHeaders
\* and getAuth (header path and session fallback) never return a principal whose
\* organizationId is absent or empty.
C12_MissingOrganizationIsUnresolved ==
  call.fn \in {"getCurrentUserFromHeaders", "getAuth"} /\ call.returned # Null =>
    call.returned.organizationId # None

\* No session evidence, or a session the provider no longer accepts: auth() and
\* /api/auth/get-session answer with no session.
NoSessionEvidence ==
  CASE call.fn = "getAuthCookie" -> ~call.cookie \/ sess = Null \/ ~call.responseOk
    [] OTHER -> HeadersIncomplete /\ sess = Null

UserGone == call.fn = "getContext" /\ SessionPrincipal # Null /\ call.userRead = "null"

OrganizationGone ==
  /\ call.fn = "getContext" /\ SessionPrincipal # Null
  /\ call.userRead = "row" /\ call.orgRead = "null"

IdentityReadFailed ==
  \/ call.fn \in {"getAuth", "getContext"} /\ HeadersIncomplete /\ sess = AuthError
  \/ call.fn = "getAuthCookie" /\ call.cookie /\ sess = AuthError
  \/ call.fn = "getContext" /\ SessionPrincipal # Null /\ call.userRead = "throw"
  \/ /\ call.fn = "getContext" /\ SessionPrincipal # Null
     /\ call.userRead = "row" /\ call.orgRead = "throw"

\* C14: when the identity-store read itself errors, the resolver propagates a
\* failure that differs from the null of a user who is not logged in.
C14_LookupFailureIsDistinguishable ==
  IdentityReadFailed => outcome # "null"

-----------------------------------------------------------------------------
(* The role and permission evaluators on unknown input *)

EvaluatorNext ==
  \/ NewHeaderRequest
  \/ EndRequest
  \/ HasRole
  \/ CheckRole
  \/ HasPermission
  \/ RequirePermission

EvaluatorSpec == GateInit /\ [][EvaluatorNext]_vars

\* The evaluator was reached with a role string outside UserRole or a token
\* outside Permission.
UnknownInput ==
  \/ call.fn = "hasRole" /\ Principal # Null /\ hdr.userRole \notin UserRole
  \/ /\ call.fn = "checkRole"
     /\ (call.userRole \notin UserRole \/ call.requiredRole \notin UserRole)
  \/ /\ call.fn = "hasPermission"
     /\ (call.userRole \notin UserRole \/ call.permission \notin Permission)
  \/ /\ call.fn = "requirePermission" /\ action_requireAuth(hdr) = "ok"
     /\ (hdr.userRole \notin UserRole \/ call.permission \notin Permission)

\* What the evaluators answer on known roles and tokens.
OrdinaryOutcomes == {"true", "false", "ok", "throw:Unauthorized", "redirect:/unauthorized"}

\* C15: for a role string outside {SUPER_ADMIN, OWNER, ADMIN, USER} or a token
\* outside the Permission set, hasRole, checkRole, hasPermission and
\* requirePermission deny without throwing, with an outcome that differs from
\* an ordinary deny.
C15_UnknownInputFailsClosed ==
  UnknownInput => outcome \notin OrdinaryOutcomes /\ outcome # "throw:TypeError"

-----------------------------------------------------------------------------
(* The middleware and the resolvers behind it *)

MiddlewareNext ==
  \/ NewBrowserRequest
  \/ EndRequest
  \/ Middleware
  \/ GetCurrentUserFromHeaders
  \/ GetAuth

MiddlewareSpec == GateInit /\ [][MiddlewareNext]_vars

\* C16: for the same underlying identity, the principal resolved from the
\* x-user-id / x-user-role / x-organization-id headers the middleware set from
\* the session and the principal of the full session lookup are identical
\* field for field: same shape, same id, role and organizationId.
C16_HeaderPrincipalIsSessionPrincipal ==
  /\ call.fn \in {"getCurrentUserFromHeaders", "getAuth"}
  /\ sess \in SessionUsers
  /\ hdr = injectHeaders(sess)
  => call.returned = getAuth(NoHeaders, sess)

\* The paths a version lets through without a session by design: its skip
\* list, the root redirect and the /auth pages.
PublicPath(variant, pathname) ==
  \/ middleware(variant, "production", FALSE, pathname, Null).result = "next"
  \/ pathname = "/"

\* C20: for a request to a non-public path that carries no session from the
\* identity provider, every middleware version redirects to the login page and
\* sets none of the x-user-id / x-user-role / x-organization-id headers: no
\* version puts a mock principal in their place.
C20_NoSessionRedirectsToLogin ==
  /\ call.fn = "middleware"
  /\ sess = Null
  /\ ~call.disaster
  /\ ~PublicPath(call.variant, call.pathname)
  => outcome = "redirect:/auth/login" /\ hdr = NoHeaders

-----------------------------------------------------------------------------
(* The evaluators called repeatedly *)

PureNext ==
  \/ NewHeaderRequest
  \/ EndRequest
  \/ HasRole
  \/ CanAccessResource
  \/ RbacGuard
  \/ HasPermission
  \/ CanAccessAccount
  \/ Remember
  \/ ReturnToCaller

PureSpec == GateInit /\ [][PureNext]_vars

\* The call just made has the arguments of the evaluation the request kept.
Repeated == trace # <<>> /\ call = trace[1].call

-----------------------------------------------------------------------------
(* The server action handlers *)

HandlerNext ==
  \/ NewHeaderRequest
  \/ EndRequest
  \/ EnterHandler
  \/ GetContextStep
  \/ ServiceCallStep

HandlerSpec == GateInit /\ [][HandlerNext]_vars

ServiceInvoked == \E i \in 1..Len(trace) : trace[i].fn = "service"

\* A gate step of the handler that ended in a denial.
CheckFailed ==
  \E i \in 1..Len(trace) :
    /\ trace[i].fn \in {"getContext", "requirePermission", "hasPermission"}
    /\ trace[i].result \notin {"ok", "true"}

C19_PermissionGateBeforeDataAccess ==
  \A i \in 1..Len(trace) :
    trace[i].fn = "service" =>
      \E j \in 1..(i - 1) :
        /\ trace[j].fn \in {"requirePermission", "hasPermission"}
        /\ trace[j].result \in {"ok", "true"}

-----------------------------------------------------------------------------
(* The middleware on admin routes and on identities without organization *)

AdminPath == StartsWith(call.pathname, "/admin") \/ StartsWith(call.pathname, "/api/admin")

AdminRoles == {"SUPER_ADMIN", "OWNER", "ADMIN"}

\* C21: a request whose path starts with /admin or /api/admin is let through
\* only if the session role is SUPER_ADMIN, OWNER or ADMIN; for USER or any
\* other role the middleware redirects to /unauthorized and sets no identity
\* headers.
C21_AdminRoutesNeedAdminRole ==
  call.fn = "middleware" /\ AdminPath =>
    /\ outcome = "next" => sess \in SessionUsers /\ sess.role \in AdminRoles
    /\ sess \in SessionUsers /\ sess.role \notin AdminRoles /\ ~call.disaster =>
         outcome = "redirect:/unauthorized" /\ hdr = NoHeaders

\* C25: the middleware never forwards an identity without an organization: a
\* session whose user has no organizationId is redirected to /onboarding on
\* every non-public path, and whenever the identity headers are set,
\* x-organization-id is a present, non-empty organization id.
C25_NoIdentityWithoutOrganization ==
  call.fn = "middleware" =>
    /\ /\ sess \in SessionUsers /\ sess.organizationId = None
       /\ ~call.disaster /\ ~PublicPath(call.variant, call.pathname)
       => outcome = "redirect:/onboarding"
    /\ hdr # NoHeaders => hdr.organizationId \notin {None, "undefined"}


-----------------------------------------------------------------------------
(* UserService writes and account membership under ServiceSpec *)

\* C28: a finished UserService.update or delete has written only a user whose
\* organizationId, at the moment of the write, is the organizationId of the
\* context the call was issued with -- also when addUserToOrganization moved
\* the user between the call's validateOwnership and its write.
C28_UserWriteStaysInContextOrganization ==
  touched.op \in {"user.update", "user.delete"} =>
    touched.orgs \subseteq {touched.organizationId}

\* C30: after any sequence of addAccountMember and addUserToOrganization calls
\* every member of an account is a user of the account's organization.
C30_MembersShareAccountOrganization ==
  \A m \in members :
    accounts[m[1]].exists => users[m[2]].organizationId = accounts[m[1]].organizationId


-----------------------------------------------------------------------------
(* ClientSpec: AuthProvider's calls interleaved at their awaits *)

ClientNext ==
  \/ Mount
  \/ CheckExistingSession_resume
  \/ Login_call
  \/ Register_call
  \/ AuthService_createSession
  \/ Login_resume
  \/ Logout_call
  \/ Logout_resume
  \/ Expire

ClientSpec == GateInit /\ [][ClientNext]_vars

\* C29: once no call of the provider is in flight, isAuthenticated holds iff
\* user and session are both non-null, session.userId is user.id, and
\* localStorage holds a sessionId iff session is non-null, and then it is
\* session.id.
C29_ProviderStateConsistent ==
  auth.pending = {} =>
    /\ isAuthenticated <=> (auth.user # Null /\ auth.session # Null)
    /\ isAuthenticated => auth.session.userId = auth.user.id
    /\ auth.stored # None <=> auth.session # Null
    /\ auth.session # Null => auth.stored = auth.session.id

\* C22: the principal the provider presents to the route guards is the one the
\* AuthService resolves now from the stored session: a role change or a
\* revoked or expired session shows in the next decision.
C22_PrincipalIsResolvedAfresh ==
  auth.pending = {} /\ ~auth.loading /\ isAuthenticated =>
    verifySession(auth.sessions, auth.users, auth.session.id) = auth.user


-----------------------------------------------------------------------------
(* GuardSpec: calls of the permissions API and renders of the route guards *)

GuardNext ==
  \/ NewHeaderRequest
  \/ EndRequest
  \/ GET
  \/ CheckPermissions
  \/ RenderProtectedRoute
  \/ RenderProtectedPage
  \/ RenderReactRouterProtectedRoute

GuardSpec == GateInit /\ [][GuardNext]_vars

HeadersOf(user) ==
  [userId |-> user.id, userRole |-> user.role, organizationId |-> user.organizationId]

\* C23: for every principal and every (requiredRole, resource organization)
\* the permissions API's hasAccess and the client's checkPermissions give the
\* answer rbacGuard gives, so a SUPER_ADMIN is let into every organization by
\* each of them.
C23_AccessCheckCopiesAgree ==
  /\ /\ call.fn = "permissions.GET"
     /\ getCurrentUserFromHeaders(hdr) # Null
     /\ call.role # None
     => (outcome = "hasAccess:true") = rbacGuard(hdr, call.role, call.organizationId)
  /\ call.fn = "checkPermissions" /\ call.user # Null
     => outcome = Returned(rbacGuard(HeadersOf(call.user), call.requiredRole,
                                     call.organizationId))

\* C24: when ProtectedPage or the react-router ProtectedRoute renders its
\* children for a user of role r, it renders them, with the same props, for a
\* user of every role ranked at or above r.
C24_ClientGuardsFollowHierarchy ==
  /\ call.fn = "ProtectedPage" /\ outcome = "children" =>
       \A r \in UserRole :
         RankAtLeast(r, call.user.role) =>
           ProtectedPage(call.loading, call.authenticated,
                         [call.user EXCEPT !.role = r], call.requiredRole) = "children"
  /\ call.fn = "reactRouter.ProtectedRoute" /\ outcome = "children" /\ call.user # Null =>
       \A r \in UserRole :
         RankAtLeast(r, call.user.role) =>
           reactRouter_ProtectedRoute(call.loading, call.authenticated,
                                      [call.user EXCEPT !.role = r], call.requiredRole,
                                      call.allowUnauthenticated) = "children"

-----------------------------------------------------------------------------
(* DirectorySpec: calls of getOrganizationUsers on any user table *)

DirectoryNext ==
  \/ GetOrganizationUsers
  \/ EndRequest

DirectorySpec == GateInit /\ [][DirectoryNext]_vars

\* C27: getOrganizationUsers throws when the requester is not a user of
\* organizationId; for every minRole, omitted included, a requester of role
\* USER gets no record but their own and a requester of role ADMIN gets no
\* record of an OWNER.
C27_DirectoryRespectsRequesterRole ==
  call.fn = "getOrganizationUsers" =>
    LET rows == call.rows
        me == call.requestingUserId IN
    /\ (me \notin DOMAIN rows \/ rows[me].organizationId # call.organizationId)
         => outcome = "throw:User does not have access to this organization"
    /\ outcome = "users" /\ rows[me].role = "USER" => call.returned \subseteq {me}
    /\ outcome = "users" /\ rows[me].role = "ADMIN" =>
         \A u \in call.returned : rows[u].role # "OWNER"

=============================================================================
